---- MODULE Spec2Model ----
(***************************************************************************)
(* Wealth Analytics Dashboard (src/app.py): one run of the Streamlit       *)
(* script, section by section (tab1 SIP, tab2 Monte Carlo, tab3 cost of    *)
(* delay, tab4 goal planner).                                              *)
(*                                                                         *)
(* Numbers.  Python ints are TLA+ integers.  Python floats are modelled as *)
(* exact base-1200 numerals (Num below): every quantity the script forms   *)
(* from percentages p/100/12 is a finite numeral in that base, so the      *)
(* arithmetic of the script is carried out without rounding.  IEEE-754     *)
(* rounding and overflow are outside the model.                            *)
(*                                                                         *)
(* Widgets.  A section reads its widgets when it starts; the values come   *)
(* from bounded subsets of the widgets' ranges.  What the script only      *)
(* displays (st.metric, the plotly figures, formatted strings) is left     *)
(* out, except the traces of fig_mc and the three summary statistics.      *)
(*                                                                         *)
(* Exceptions.  An uncaught exception ends the run of the script: the      *)
(* statements after the raising line do not run.                           *)
(***************************************************************************)
EXTENDS Integers, Sequences, FiniteSets

VARIABLES
    pc,            \* the statement of the script that runs next
    error,         \* the exception that ended the run, or "none"
    rng,           \* hidden state of numpy's global generator (np.random)
    months,        \* top-level name assigned by tab1, tab2 and tab4
    monthly_rate,  \* top-level name assigned by tab1 and tab4
    tab1,          \* names assigned in the SIP section
    tab2,          \* names assigned in the Monte Carlo section
    tab3,          \* names assigned in the cost-of-delay section
    tab4           \* names assigned in the goal-planner section

vars == <<pc, error, rng, months, monthly_rate, tab1, tab2, tab3, tab4>>

(***************************************************************************)
(* Exact arithmetic on base-Q numerals.                                    *)
(* A Num is [neg, dig, e]: value = (+/-) (SUM dig[i] * Q^(i-1)) / Q^e,     *)
(* digits little-endian.  Canonical form: no high zero digit, no low zero  *)
(* digit while e > 0, zero is [neg |-> FALSE, dig |-> <<>>, e |-> 0].      *)
(***************************************************************************)
\* 100 * 12: the script turns an annual percentage into a monthly rate by
\* / 100 / 12, so every rate is a numeral in this base
Q == 100 * 12

Zero == [neg |-> FALSE, dig |-> << >>, e |-> 0]

Max(a, b) == IF a >= b THEN a ELSE b

Digit(d, i) == IF i <= Len(d) THEN d[i] ELSE 0

RECURSIVE IntDigits(_)
IntDigits(n) == IF n = 0 THEN << >> ELSE <<n % Q>> \o IntDigits(n \div Q)

\* The digit loops below split their range in halves, so that a numeral of
\* n digits is processed at recursion depth log2(n).

\* highest index in lo..hi with d[i] # 0, or 0
RECURSIVE HighNZ(_, _, _)
HighNZ(d, lo, hi) ==
    IF lo > hi THEN 0
    ELSE IF lo = hi THEN (IF d[lo] # 0 THEN lo ELSE 0)
    ELSE LET mid == (lo + hi) \div 2
             r == HighNZ(d, mid + 1, hi)
         IN  IF r # 0 THEN r ELSE HighNZ(d, lo, mid)

\* lowest index in lo..hi with d[i] # 0, or 0
RECURSIVE LowNZ(_, _, _)
LowNZ(d, lo, hi) ==
    IF lo > hi THEN 0
    ELSE IF lo = hi THEN (IF d[lo] # 0 THEN lo ELSE 0)
    ELSE LET mid == (lo + hi) \div 2
             r == LowNZ(d, lo, mid)
         IN  IF r # 0 THEN r ELSE LowNZ(d, mid + 1, hi)

\* canonical form of (+/-) d / Q^e
Norm(neg, d, e) ==
    LET h == HighNZ(d, 1, Len(d))
        l == LowNZ(d, 1, h)
        z == IF l - 1 < e THEN l - 1 ELSE e
    IN  IF h = 0 THEN Zero
        ELSE [neg |-> neg, dig |-> SubSeq(d, z + 1, h), e |-> e - z]

FromInt(n) ==
    IF n < 0 THEN Norm(TRUE, IntDigits(-n), 0) ELSE Norm(FALSE, IntDigits(n), 0)

One == FromInt(1)

\* digits of d * Q^k
Shift(d, k) == IF d = << >> THEN d ELSE [i \in 1..k |-> 0] \o d

\* digits lo..hi of a + b + carry, and the carry out
RECURSIVE AddRange(_, _, _, _, _)
AddRange(a, b, lo, hi, carry) ==
    IF lo > hi THEN [dig |-> << >>, carry |-> carry]
    ELSE IF lo = hi
    THEN LET t == Digit(a, lo) + Digit(b, lo) + carry
         IN  [dig |-> <<t % Q>>, carry |-> t \div Q]
    ELSE LET mid == (lo + hi) \div 2
             l == AddRange(a, b, lo, mid, carry)
             h == AddRange(a, b, mid + 1, hi, l.carry)
         IN  [dig |-> l.dig \o h.dig, carry |-> h.carry]

AddDigits(a, b) ==
    LET r == AddRange(a, b, 1, Max(Len(a), Len(b)), 0)
    IN  IF r.carry = 0 THEN r.dig ELSE Append(r.dig, r.carry)

\* digits lo..hi of a - b - borrow, and the borrow out
RECURSIVE SubRange(_, _, _, _, _)
SubRange(a, b, lo, hi, borrow) ==
    IF lo > hi THEN [dig |-> << >>, borrow |-> borrow]
    ELSE IF lo = hi
    THEN LET t == Digit(a, lo) - Digit(b, lo) - borrow
         IN  IF t < 0 THEN [dig |-> <<t + Q>>, borrow |-> 1]
             ELSE [dig |-> <<t>>, borrow |-> 0]
    ELSE LET mid == (lo + hi) \div 2
             l == SubRange(a, b, lo, mid, borrow)
             h == SubRange(a, b, mid + 1, hi, l.borrow)
         IN  [dig |-> l.dig \o h.dig, borrow |-> h.borrow]

\* a - b for a >= b
SubDigits(a, b) == SubRange(a, b, 1, Len(a), 0).dig

\* highest index in lo..hi where a and b differ, or 0
RECURSIVE HighDiff(_, _, _, _)
HighDiff(a, b, lo, hi) ==
    IF lo > hi THEN 0
    ELSE IF lo = hi THEN (IF a[lo] # b[lo] THEN lo ELSE 0)
    ELSE LET mid == (lo + hi) \div 2
             r == HighDiff(a, b, mid + 1, hi)
         IN  IF r # 0 THEN r ELSE HighDiff(a, b, lo, mid)

\* compare magnitudes with no high zero digits: -1, 0, 1
CmpDigits(a, b) ==
    IF Len(a) < Len(b) THEN -1
    ELSE IF Len(a) > Len(b) THEN 1
    ELSE LET i == HighDiff(a, b, 1, Len(a))
         IN  IF i = 0 THEN 0 ELSE IF a[i] < b[i] THEN -1 ELSE 1

\* digits lo..hi of a * k + carry for a one-digit k, and the carry out
RECURSIVE MulRange(_, _, _, _, _)
MulRange(a, k, lo, hi, carry) ==
    IF lo > hi THEN [dig |-> << >>, carry |-> carry]
    ELSE IF lo = hi
    THEN LET t == a[lo] * k + carry
         IN  [dig |-> <<t % Q>>, carry |-> t \div Q]
    ELSE LET mid == (lo + hi) \div 2
             l == MulRange(a, k, lo, mid, carry)
             h == MulRange(a, k, mid + 1, hi, l.carry)
         IN  [dig |-> l.dig \o h.dig, carry |-> h.carry]

MulSmall(a, k) ==
    LET r == MulRange(a, k, 1, Len(a), 0)
    IN  IF r.carry = 0 THEN r.dig ELSE Append(r.dig, r.carry)

\* SUM over j in lo..hi of a * b[j] * Q^(j-1)
RECURSIVE MulDigits(_, _, _, _)
MulDigits(a, b, lo, hi) ==
    IF lo > hi THEN << >>
    ELSE IF lo = hi THEN Shift(MulSmall(a, b[lo]), lo - 1)
    ELSE LET mid == (lo + hi) \div 2
         IN  AddDigits(MulDigits(a, b, lo, mid), MulDigits(a, b, mid + 1, hi))

\* quotient digits hi..lo (high digit first) and remainder of a by a small
\* k, rem being the remainder carried in from the digits above hi
RECURSIVE DivRange(_, _, _, _, _)
DivRange(a, k, lo, hi, rem) ==
    IF lo > hi THEN [quo |-> << >>, rem |-> rem]
    ELSE IF lo = hi
    THEN LET t == rem * Q + a[lo]
         IN  [quo |-> <<t \div k>>, rem |-> t % k]
    ELSE LET mid == (lo + hi) \div 2
             h == DivRange(a, k, mid + 1, hi, rem)
             l == DivRange(a, k, lo, mid, h.rem)
         IN  [quo |-> h.quo \o l.quo, rem |-> l.rem]

Reverse(d) == [i \in 1..Len(d) |-> d[Len(d) + 1 - i]]

DivSmall(a, k) ==
    LET r == DivRange(a, k, 1, Len(a), 0)
    IN  [quo |-> Reverse(r.quo), rem |-> r.rem]

\* the digits of x scaled to e fractional digits (e >= x.e)
Scaled(x, e) == Shift(x.dig, e - x.e)

Neg(x) == IF x = Zero THEN x ELSE [x EXCEPT !.neg = ~x.neg]

Add(x, y) ==
    LET e == Max(x.e, y.e)
        a == Scaled(x, e)
        b == Scaled(y, e)
        c == CmpDigits(a, b)
    IN  IF x.neg = y.neg THEN Norm(x.neg, AddDigits(a, b), e)
        ELSE IF c = 0 THEN Zero
        ELSE IF c > 0 THEN Norm(x.neg, SubDigits(a, b), e)
        ELSE Norm(y.neg, SubDigits(b, a), e)

Sub(x, y) == Add(x, Neg(y))

Mul(x, y) ==
    Norm(x.neg # y.neg,
         IF Len(y.dig) <= Len(x.dig) THEN MulDigits(x.dig, y.dig, 1, Len(y.dig))
         ELSE MulDigits(y.dig, x.dig, 1, Len(x.dig)),
         x.e + y.e)

\* sign of x - y
Cmp(x, y) ==
    IF x.neg # y.neg THEN (IF x.neg THEN -1 ELSE 1)
    ELSE LET e == Max(x.e, y.e)
             c == CmpDigits(Scaled(x, e), Scaled(y, e))
         IN  IF x.neg THEN -c ELSE c

Leq(x, y) == Cmp(x, y) <= 0
Less(x, y) == Cmp(x, y) < 0

\* x ** n by repeated squaring
RECURSIVE Pow(_, _)
Pow(x, n) ==
    IF n = 0 THEN One
    ELSE LET h == Pow(x, n \div 2)
             sq == Mul(h, h)
         IN  IF n % 2 = 0 THEN sq ELSE Mul(sq, x)

\* the integer whose digits are d (d of at most two digits)
SmallInt(d) == Digit(d, 1) + Q * Digit(d, 2)

\* a * Q^s / m for the least s <= cap that leaves no remainder
RECURSIVE DivTry(_, _, _, _)
DivTry(a, m, s, cap) ==
    LET r == DivSmall(Shift(a, s), m)
    IN  IF r.rem = 0 THEN [quo |-> r.quo, s |-> s]
        ELSE IF s < cap THEN DivTry(a, m, s + 1, cap)
        ELSE "inexact"

\* x / y for y # 0 with a mantissa of at most two digits; the quotient is
\* a finite numeral whenever the primes of the mantissa other than 2, 3, 5
\* divide x's mantissa ("inexact" otherwise, which no state of the model meets)
Div(x, y) ==
    IF x = Zero THEN Zero
    ELSE LET r == DivTry(x.dig, SmallInt(y.dig), 0, 11 * Len(y.dig))
             e == x.e + r.s - y.e
         IN  IF e >= 0 THEN Norm(x.neg # y.neg, r.quo, e)
             ELSE Norm(x.neg # y.neg, Shift(r.quo, -e), 0)

MaxNum(x, y) == IF Less(x, y) THEN y ELSE x

\* a quotient left unevaluated: the divisor (1 + 0.06/12)^m has the prime
\* factor 67, so the quotient is no finite numeral in base Q
Quot(x, y) == [num |-> x, den |-> y]

(***************************************************************************)
(* The script.                                                             *)
(***************************************************************************)
Unset == "unset"

\* rate / 100 / 12
MonthlyRate(annual) == Div(Div(annual, FromInt(100)), FromInt(12))

\* c * ((((1 + rate)**n) - 1) / rate) * (1 + rate), for rate # 0
AnnuityFv(c, rate, n) ==
    Mul(Mul(c, Div(Sub(Pow(Add(One, rate), n), One), rate)), Add(One, rate))

(***************************************************************************)
(* tab1: SIP + tax analytics (lines 33-87)                                 *)
(***************************************************************************)
\* widget ranges of tab1 the model draws from
MaxSipYears == 2
SipInvestments == {1000, 25000, 100000}
SipReturnRates == {FromInt(5), Div(FromInt(25), FromInt(2)), FromInt(20)}
SipInputs ==
    [monthly_inv : SipInvestments, return_rate : SipReturnRates,
     time_period : 1..MaxSipYears, inflation_adj : BOOLEAN, tax_adj : BOOLEAN]
SipSingle ==
    {[monthly_inv |-> 25000, return_rate |-> FromInt(12), time_period |-> 1,
      inflation_adj |-> FALSE, tax_adj |-> FALSE]}

LtcgExemption == 125000
LtcgRate == Div(FromInt(125), FromInt(1000))
InflationPct == 6

Tab1Unset ==
    [monthly_inv |-> Unset, return_rate |-> Unset, time_period |-> Unset,
     inflation_adj |-> Unset, tax_adj |-> Unset, inflation_rate |-> Unset,
     data |-> << >>, total_invested |-> Unset, current_value |-> Unset,
     m |-> Unset, final_val |-> Unset, final_invested |-> Unset,
     total_gains |-> Unset, tax_amount |-> Unset, post_tax_value |-> Unset]

\* lines 40-56: read the widgets, initialise the loop
Tab1Inputs(S) ==
    /\ pc = "tab1"
    /\ \E in \in S :
        /\ tab1' = [tab1 EXCEPT
                !.monthly_inv = in.monthly_inv,
                !.return_rate = in.return_rate,
                !.time_period = in.time_period,
                !.inflation_adj = in.inflation_adj,
                !.tax_adj = in.tax_adj,
                !.inflation_rate =
                    IF in.inflation_adj THEN FromInt(InflationPct) ELSE Zero,
                !.data = << >>,
                !.total_invested = 0,
                !.current_value = Zero,
                !.m = 0]
        /\ months' = in.time_period * 12
        /\ monthly_rate' = MonthlyRate(in.return_rate)
    /\ pc' = "sip_loop"
    /\ UNCHANGED <<error, rng, tab2, tab3, tab4>>

\* faulty variant: range(1, months), the loop stops one month early
SipLastMonthShort(n) == n - 1

\* last value of m in range(1, months + 1)
SipLastMonth(n) == n

\* faulty variant: the interest is taken off instead of added
SipCompoundLosing(current_value, monthly_inv, rate) ==
    Add(current_value, Sub(FromInt(monthly_inv), Mul(current_value, rate)))

\* faulty variant: the contribution earns interest in the month it lands
SipCompoundDue(current_value, monthly_inv, rate) ==
    Mul(Add(current_value, FromInt(monthly_inv)), Add(One, rate))

\* current_value after: interest = current_value * monthly_rate;
\*                      current_value += monthly_inv + interest
SipCompound(current_value, monthly_inv, rate) ==
    Add(current_value, Add(FromInt(monthly_inv), Mul(current_value, rate)))

\* lines 58-72: one iteration of the loop over m
SipMonth ==
    /\ pc = "sip_loop"
    /\ tab1.m < SipLastMonth(months)
    /\ LET m == tab1.m + 1
           total_invested == tab1.total_invested + tab1.monthly_inv
           current_value ==
               SipCompound(tab1.current_value, tab1.monthly_inv, monthly_rate)
           real_value ==
               Quot(current_value,
                    Pow(Add(One, MonthlyRate(tab1.inflation_rate)), m))
       IN  tab1' = [tab1 EXCEPT
                !.m = m,
                !.total_invested = total_invested,
                !.current_value = current_value,
                !.data = Append(@, [Month |-> m,
                                    Year |-> Div(FromInt(m), FromInt(12)),
                                    Invested |-> total_invested,
                                    PortfolioValue |-> current_value,
                                    RealValue |-> real_value])]
    /\ UNCHANGED <<pc, error, rng, months, monthly_rate, tab2, tab3, tab4>>

\* faulty variant: the exemption is subtracted without the floor at 0
TaxableGainsNoFloor(total_gains) == Sub(total_gains, FromInt(LtcgExemption))

\* max(0, total_gains - 125000)
TaxableGains(total_gains) ==
    MaxNum(Zero, Sub(total_gains, FromInt(LtcgExemption)))

\* lines 74-87: the last row of the frame, gains and tax
SipPost ==
    /\ pc = "sip_loop"
    /\ tab1.m >= SipLastMonth(months)
    /\ LET last == tab1.data[Len(tab1.data)]
           final_val == last.PortfolioValue
           final_invested == last.Invested
           total_gains == Sub(final_val, FromInt(final_invested))
           tax_amount == Mul(TaxableGains(total_gains), LtcgRate)
       IN  tab1' = [tab1 EXCEPT
                !.final_val = final_val,
                !.final_invested = final_invested,
                !.total_gains = total_gains,
                !.tax_amount = IF tab1.tax_adj THEN tax_amount ELSE Zero,
                !.post_tax_value =
                    IF tab1.tax_adj THEN Sub(final_val, tax_amount)
                    ELSE final_val]
    /\ pc' = "tab2"
    /\ UNCHANGED <<error, rng, months, monthly_rate, tab2, tab3, tab4>>


(***************************************************************************)
(* tab2: Monte Carlo simulation (lines 116-170)                            *)
(*                                                                         *)
(* np.random.normal reads numpy's global generator, a deterministic        *)
(* generator whose state the script never sets: rng is that state, taken   *)
(* from 0..MaxSeed when tab2 starts, and advanced by every variate drawn.  *)
(* A variate is monthly_mean + monthly_std * z; the standard-normal z is   *)
(* taken on the grid k / sqrt(12), which makes monthly_std * z the numeral *)
(* k * mc_volatility / 100 / 12 (monthly_std itself, volatility / 100 /    *)
(* sqrt(12), is irrational and is not stored).  In generator state 0 every *)
(* z is 0: every return drawn equals monthly_mean, as with a standard      *)
(* deviation of 0.                                                         *)
(***************************************************************************)
MaxSeed == 1
McSingle ==
    {[mc_years |-> 5, mc_inv |-> 25000, mc_avg_return |-> FromInt(12),
      mc_volatility |-> FromInt(15)]}
McInputs ==
    McSingle \union
    {[mc_years |-> 5, mc_inv |-> 5000, mc_avg_return |-> FromInt(8),
      mc_volatility |-> FromInt(5)]}

simulations == 50

Tab2Unset ==
    [mc_years |-> Unset, mc_inv |-> Unset, mc_avg_return |-> Unset,
     mc_volatility |-> Unset, final_values |-> << >>, fig_mc |-> << >>,
     i |-> Unset, monthly_mean |-> Unset, monthly_returns |-> << >>,
     ret_idx |-> Unset, portfolio_path |-> << >>, curr |-> Unset,
     avg_path |-> Unset, summary |-> Unset]

\* g * 3^t modulo 257: the generator state t variates after state g
RECURSIVE RngPow(_)
RngPow(t) ==
    IF t = 0 THEN 1
    ELSE LET h == RngPow(t \div 2)
         IN  (h * h * (IF t % 2 = 1 THEN 3 ELSE 1)) % 257

RngAfter(g, t) == (g * RngPow(t)) % 257

\* sqrt(12) * z for the standard-normal z the generator yields in state g
Variates == <<0, 3, -3, 7, -7>>
Variate(g) == Variates[(g % 5) + 1]

\* one sample of np.random.normal(monthly_mean, monthly_std), state g
NormalSample(monthly_mean, mc_volatility, g) ==
    Add(monthly_mean, Mul(FromInt(Variate(g)), MonthlyRate(mc_volatility)))

\* lines 123-136: read the widgets, initialise the run
Tab2Inputs(S) ==
    /\ pc = "tab2"
    /\ \E in \in S :
        /\ tab2' = [Tab2Unset EXCEPT
                !.mc_years = in.mc_years,
                !.mc_inv = in.mc_inv,
                !.mc_avg_return = in.mc_avg_return,
                !.mc_volatility = in.mc_volatility,
                !.i = 0]
        /\ months' = in.mc_years * 12
    /\ rng' \in 0..MaxSeed
    /\ pc' = "mc_loop"
    /\ UNCHANGED <<error, monthly_rate, tab1, tab3, tab4>>

\* lines 138-149: start simulation i, draw its monthly returns
\* (tab2.i counts the simulations started: range(simulations) is 0..49)
McDraw ==
    /\ pc = "mc_loop"
    /\ tab2.i < simulations
    /\ LET monthly_mean == MonthlyRate(tab2.mc_avg_return)
       IN  tab2' = [tab2 EXCEPT
                !.monthly_mean = monthly_mean,
                !.monthly_returns =
                    [t \in 1..months |->
                        NormalSample(monthly_mean, tab2.mc_volatility,
                                     RngAfter(rng, t))],
                !.portfolio_path = <<Zero>>,
                !.curr = Zero,
                !.ret_idx = 0]
    /\ rng' = RngAfter(rng, months)
    /\ pc' = "mc_path"
    /\ UNCHANGED <<error, months, monthly_rate, tab1, tab3, tab4>>

\* faulty variant: the contribution lands after the month's return is applied
McCompoundOrdinary(curr, mc_inv, ret) ==
    Add(Mul(curr, Add(One, ret)), FromInt(mc_inv))

\* curr = (curr + mc_inv) * (1 + ret)
McCompound(curr, mc_inv, ret) ==
    Mul(Add(curr, FromInt(mc_inv)), Add(One, ret))

\* lines 150-152: one iteration of the loop over monthly_returns
McMonth ==
    /\ pc = "mc_path"
    /\ tab2.ret_idx < Len(tab2.monthly_returns)
    /\ LET ret == tab2.monthly_returns[tab2.ret_idx + 1]
           curr == McCompound(tab2.curr, tab2.mc_inv, ret)
       IN  tab2' = [tab2 EXCEPT
                !.ret_idx = @ + 1,
                !.curr = curr,
                !.portfolio_path = Append(@, curr)]
    /\ UNCHANGED <<pc, error, rng, months, monthly_rate, tab1, tab3, tab4>>

\* what the model keeps of a trace of fig_mc: its length and its two ends
Trace(path) == [n |-> Len(path), first |-> path[1], last |-> path[Len(path)]]

\* faulty variant: final_values = [curr], an assignment in place of the append
McCollectLast(final_values, curr) == <<curr>>

\* the terminal values after final_values.append(curr)
McCollect(final_values, curr) == Append(final_values, curr)

\* lines 154-157: end of simulation i
McEndPath ==
    /\ pc = "mc_path"
    /\ tab2.ret_idx >= Len(tab2.monthly_returns)
    /\ tab2' = [tab2 EXCEPT
            !.final_values = McCollect(@, tab2.curr),
            !.fig_mc = Append(@, Trace(tab2.portfolio_path)),
            !.i = @ + 1]
    /\ pc' = "mc_loop"
    /\ UNCHANGED <<error, rng, months, monthly_rate, tab1, tab3, tab4>>

\* number of entries of v below x, and at most x
CountLess(v, x) == Cardinality({j \in 1..Len(v) : Less(v[j], x)})
CountLeq(v, x) == Cardinality({j \in 1..Len(v) : Leq(v[j], x)})

\* the k-th entry of v in sorted order
Kth(v, k) ==
    v[CHOOSE j \in 1..Len(v) : CountLess(v, v[j]) < k /\ k <= CountLeq(v, v[j])]

\* min(final_values), max(final_values)
MinOf(v) == Kth(v, 1)
MaxOf(v) == Kth(v, Len(v))

\* np.median: the middle entry of the sorted values, or the mean of the two
\* middle entries for an even count
Median(v) ==
    LET n == Len(v)
    IN  IF n % 2 = 1 THEN Kth(v, (n + 1) \div 2)
        ELSE Div(Add(Kth(v, n \div 2), Kth(v, n \div 2 + 1)), FromInt(2))

\* line 160: mc_inv * m * (1 + monthly_mean)**m for m in range(months + 1)
AvgPath(mc_inv, monthly_mean, n) ==
    [k \in 1..(n + 1) |->
        Mul(FromInt(mc_inv * (k - 1)), Pow(Add(One, monthly_mean), k - 1))]

\* lines 159-170: after the loop, the overlay and the summary statistics
McSummary ==
    /\ pc = "mc_loop"
    /\ tab2.i >= simulations
    /\ tab2' = [tab2 EXCEPT
            !.avg_path = AvgPath(tab2.mc_inv, tab2.monthly_mean, months),
            !.summary = [min |-> MinOf(tab2.final_values),
                         median |-> Median(tab2.final_values),
                         max |-> MaxOf(tab2.final_values)]]
    /\ pc' = "tab3"
    /\ UNCHANGED <<error, rng, months, monthly_rate, tab1, tab3, tab4>>

(***************************************************************************)
(* tab3: cost of delay (lines 174-196)                                     *)
(***************************************************************************)
DelayInputs ==
    [delay_inv : {25000}, delay_ret : {Zero, FromInt(12)},
     delay_duration : {10, 20}, delay_years : {5, 10}]

Tab3Unset ==
    [delay_inv |-> Unset, delay_ret |-> Unset, delay_duration |-> Unset,
     delay_years |-> Unset, months_a |-> Unset, rate |-> Unset,
     corpus_a |-> Unset, months_b |-> Unset, corpus_b |-> Unset,
     loss |-> Unset]

\* lines 180-188: the widgets, months_a and rate
Tab3Read(in) ==
    [Tab3Unset EXCEPT
        !.delay_inv = in.delay_inv,
        !.delay_ret = in.delay_ret,
        !.delay_duration = in.delay_duration,
        !.delay_years = in.delay_years,
        !.months_a = in.delay_duration * 12,
        !.rate = MonthlyRate(in.delay_ret)]

\* lines 180-196 with rate # 0: both corpora and the loss
Tab3(S) ==
    /\ pc = "tab3"
    /\ \E in \in S :
        LET r == Tab3Read(in)
            months_b == (in.delay_duration - in.delay_years) * 12
            corpus_a == AnnuityFv(FromInt(in.delay_inv), r.rate, r.months_a)
            corpus_b == AnnuityFv(FromInt(in.delay_inv), r.rate, months_b)
        IN  /\ r.rate # Zero
            /\ tab3' = [r EXCEPT
                    !.corpus_a = corpus_a,
                    !.months_b = months_b,
                    !.corpus_b = corpus_b,
                    !.loss = Sub(corpus_a, corpus_b)]
    /\ pc' = "tab4"
    /\ UNCHANGED <<error, rng, months, monthly_rate, tab1, tab2, tab4>>

\* lines 180-189 with rate = 0: the division (... - 1) / rate of line 189
\* raises ZeroDivisionError, which ends the run of the script
Tab3Raises(S) ==
    /\ pc = "tab3"
    /\ \E in \in S :
        LET r == Tab3Read(in)
        IN  /\ r.rate = Zero
            /\ tab3' = r
    /\ pc' = "raised"
    /\ error' = "ZeroDivisionError"
    /\ UNCHANGED <<rng, months, monthly_rate, tab1, tab2, tab4>>

(***************************************************************************)
(* tab4: goal planner (lines 210-238)                                      *)
(***************************************************************************)
GoalInputs ==
    [current_cost : {4000000}, years_to_buy : {1, 5}, item_inflation : {0, 5},
     monthly_savings_goal : {50000, 100000}, goal_return : {FromInt(10)}]

Tab4Unset ==
    [current_cost |-> Unset, years_to_buy |-> Unset, item_inflation |-> Unset,
     monthly_savings_goal |-> Unset, goal_return |-> Unset,
     future_cost |-> Unset, future_savings |-> Unset, gap |-> Unset,
     affordable |-> Unset]

\* current_cost * ((1 + (item_inflation/100)) ** years_to_buy)
FutureCost(current_cost, item_inflation, years_to_buy) ==
    Mul(FromInt(current_cost),
        Pow(Add(One, Div(FromInt(item_inflation), FromInt(100))), years_to_buy))

\* lines 216-238: the widgets, future cost, future savings and the gap
Tab4(S) ==
    /\ pc = "tab4"
    /\ \E in \in S :
        LET rate == MonthlyRate(in.goal_return)
            n == in.years_to_buy * 12
            future_cost ==
                FutureCost(in.current_cost, in.item_inflation, in.years_to_buy)
            future_savings ==
                AnnuityFv(FromInt(in.monthly_savings_goal), rate, n)
            gap == Sub(future_savings, future_cost)
        IN  /\ tab4' = [current_cost |-> in.current_cost,
                        years_to_buy |-> in.years_to_buy,
                        item_inflation |-> in.item_inflation,
                        monthly_savings_goal |-> in.monthly_savings_goal,
                        goal_return |-> in.goal_return,
                        future_cost |-> future_cost,
                        future_savings |-> future_savings,
                        gap |-> gap,
                        affordable |-> Leq(Zero, gap)]
            /\ months' = n
            /\ monthly_rate' = rate
    /\ pc' = "done"
    /\ UNCHANGED <<error, rng, tab1, tab2, tab3>>

(***************************************************************************)
(* Specifications: the script from its first line, cut after a section,    *)
(* each over its own ranges of widget values.                              *)
(***************************************************************************)
Init ==
    /\ pc = "tab1"
    /\ error = "none"
    /\ rng = Unset
    /\ months = Unset
    /\ monthly_rate = Unset
    /\ tab1 = Tab1Unset
    /\ tab2 = Tab2Unset
    /\ tab3 = Tab3Unset
    /\ tab4 = Tab4Unset

NextSip == Tab1Inputs(SipInputs) \/ SipMonth \/ SipPost

\* the script up to the end of tab1, over tab1's widget ranges
SpecSip == Init /\ [][NextSip]_vars

NextMC ==
    \/ Tab1Inputs(SipSingle) \/ SipMonth \/ SipPost
    \/ Tab2Inputs(McInputs) \/ McDraw \/ McMonth \/ McEndPath \/ McSummary

\* the script up to the end of tab2, over tab2's widget ranges and the
\* generator states
SpecMC == Init /\ [][NextMC]_vars

SipFew ==
    SipSingle \union
    {[monthly_inv |-> 1000, return_rate |-> FromInt(5), time_period |-> 2,
      inflation_adj |-> TRUE, tax_adj |-> TRUE]}

Next ==
    \/ Tab1Inputs(SipFew) \/ SipMonth \/ SipPost
    \/ Tab2Inputs(McSingle) \/ McDraw \/ McMonth \/ McEndPath \/ McSummary
    \/ Tab3(DelayInputs) \/ Tab3Raises(DelayInputs)
    \/ Tab4(GoalInputs)

\* one run of the whole script
Spec == Init /\ [][Next]_vars

(***************************************************************************)
(* Claims about tab1, checked under SpecSip.                               *)
(***************************************************************************)
SipDone == pc = "tab2"

\* C3: after month m the running invested total is contribution * m; one
\* point is emitted per month, in month order 1..N; the invested amount never
\* decreases from a point to the next; the final invested amount is
\* contribution * N, N = years * 12.
C3_InvestedTotal ==
    /\ pc = "sip_loop" =>
            /\ tab1.total_invested = tab1.monthly_inv * tab1.m
            /\ Len(tab1.data) = tab1.m
            /\ tab1.m <= tab1.time_period * 12
    /\ \A k \in 1..Len(tab1.data) :
            /\ tab1.data[k].Month = k
            /\ tab1.data[k].Invested = tab1.monthly_inv * k
            /\ k > 1 => tab1.data[k - 1].Invested <= tab1.data[k].Invested
    /\ SipDone =>
            /\ Len(tab1.data) = tab1.time_period * 12
            /\ tab1.final_invested = tab1.monthly_inv * tab1.time_period * 12

C3_Witness ==
    /\ SipDone
    /\ tab1.time_period = 2
    /\ tab1.final_invested = 25000 * 24
    /\ Len(tab1.data) = 24

\* C4: the nominal portfolio value never decreases from a month to the next
\* and is at least the cumulative invested amount at every month, so the
\* final value is at least the final invested amount.
C4_ValueMonotone ==
    /\ \A k \in 1..Len(tab1.data) :
            /\ Leq(FromInt(tab1.data[k].Invested), tab1.data[k].PortfolioValue)
            /\ k > 1 => Leq(tab1.data[k - 1].PortfolioValue,
                            tab1.data[k].PortfolioValue)
    /\ SipDone => Leq(FromInt(tab1.final_invested), tab1.final_val)

C4_Witness ==
    /\ SipDone
    /\ Len(tab1.data) = 24
    /\ Less(FromInt(tab1.final_invested), tab1.final_val)
    /\ Less(tab1.data[23].PortfolioValue, tab1.data[24].PortfolioValue)

\* C5: totalGain = finalValue - finalInvested; with the tax flag on the tax
\* is 0 when totalGain <= 125000 and (totalGain - 125000) / 8 above that, and
\* postTaxValue = finalValue - tax; with the flag off tax = 0 and
\* postTaxValue = finalValue.
C5_TaxRule ==
    SipDone =>
        /\ Add(tab1.total_gains, FromInt(tab1.final_invested)) = tab1.final_val
        /\ Add(tab1.post_tax_value, tab1.tax_amount) = tab1.final_val
        /\ ~tab1.tax_adj => tab1.tax_amount = Zero
        /\ tab1.tax_adj /\ Leq(tab1.total_gains, FromInt(125000)) =>
                tab1.tax_amount = Zero
        /\ tab1.tax_adj /\ Less(FromInt(125000), tab1.total_gains) =>
                Mul(tab1.tax_amount, FromInt(8)) =
                    Sub(tab1.total_gains, FromInt(125000))

C5_Witness ==
    /\ SipDone
    /\ tab1.tax_adj
    /\ Less(FromInt(125000), tab1.total_gains)
    /\ Less(Zero, tab1.tax_amount)
    /\ Less(tab1.post_tax_value, tab1.final_val)

\* the case of C5 below the exemption is reached as well
C5_WitnessExempt ==
    /\ SipDone
    /\ tab1.tax_adj
    /\ Less(Zero, tab1.total_gains)
    /\ Less(tab1.total_gains, FromInt(125000))

\* C10 as stated: the final value of the SIP loop equals the annuity-due
\* formula c * (((1+r)^N - 1) / r) * (1+r) of the delay and goal sections.
C10_SipIsAnnuityDue ==
    SipDone =>
        tab1.final_val =
            AnnuityFv(FromInt(tab1.monthly_inv), monthly_rate, months)

\* C10 amended: the final value of the SIP loop is the ordinary-annuity value
\* c * (((1+r)^N - 1) / r); it is the annuity-due formula divided by (1+r),
\* hence strictly below it.
C10_SipIsOrdinaryAnnuity ==
    SipDone =>
        LET c == FromInt(tab1.monthly_inv)
            due == AnnuityFv(c, monthly_rate, months)
        IN  /\ tab1.final_val =
                 Mul(c, Div(Sub(Pow(Add(One, monthly_rate), months), One),
                            monthly_rate))
            /\ Mul(tab1.final_val, Add(One, monthly_rate)) = due
            /\ Less(tab1.final_val, due)

C10_Witness ==
    /\ SipDone
    /\ months = 24
    /\ tab1.monthly_inv = 25000
    /\ Less(Zero, monthly_rate)
    /\ Less(FromInt(25000 * 24), tab1.final_val)

(***************************************************************************)
(* Claims about tab2, checked under SpecMC.                                *)
(***************************************************************************)
McDone == pc = "tab3"

\* C7: after the run exactly 50 terminal values are collected, each the last
\* element of its own path, a path of length months + 1 that starts at 0;
\* the summary has minimum <= median <= maximum, the median being the mean
\* of the two middle values of the 50 sorted terminal values.
C7_TerminalValues ==
    /\ Len(tab2.final_values) = Len(tab2.fig_mc)
    /\ pc \in {"mc_loop", "mc_path"} => Len(tab2.final_values) = tab2.i
    /\ \A k \in 1..Len(tab2.final_values) :
            /\ tab2.fig_mc[k].n = tab2.mc_years * 12 + 1
            /\ tab2.fig_mc[k].first = Zero
            /\ tab2.fig_mc[k].last = tab2.final_values[k]
    /\ pc = "mc_path" =>
            /\ Len(tab2.portfolio_path) = tab2.ret_idx + 1
            /\ tab2.portfolio_path[1] = Zero
            /\ tab2.portfolio_path[Len(tab2.portfolio_path)] = tab2.curr
    /\ McDone =>
            /\ Len(tab2.final_values) = 50
            /\ Leq(tab2.summary.min, tab2.summary.median)
            /\ Leq(tab2.summary.median, tab2.summary.max)
            /\ \A k \in 1..50 :
                    /\ Leq(tab2.summary.min, tab2.final_values[k])
                    /\ Leq(tab2.final_values[k], tab2.summary.max)
            /\ Mul(tab2.summary.median, FromInt(2)) =
                    Add(Kth(tab2.final_values, 25), Kth(tab2.final_values, 26))

C7_Witness ==
    /\ McDone
    /\ Len(tab2.final_values) = 50
    /\ Less(tab2.summary.min, tab2.summary.median)
    /\ Less(tab2.summary.median, tab2.summary.max)
    /\ Less(Kth(tab2.final_values, 25), Kth(tab2.final_values, 26))

\* every return drawn so far equals the monthly mean: the generator is in
\* the state whose variates are all 0
ZeroVolatility == pc \notin {"tab1", "sip_loop", "tab2"} /\ rng = 0

\* C8: when every monthly return drawn equals the monthly mean r, all 50
\* terminal values are equal, and equal to the closed-form annuity-due value
\* contribution * (((1+r)^months - 1) / r) * (1+r).
C8_ZeroVolatility ==
    ZeroVolatility =>
        /\ \A t \in 1..Len(tab2.monthly_returns) :
                tab2.monthly_returns[t] = tab2.monthly_mean
        /\ pc \in {"mc_loop", "tab3"} =>
                LET due == AnnuityFv(FromInt(tab2.mc_inv),
                                     MonthlyRate(tab2.mc_avg_return),
                                     tab2.mc_years * 12)
                IN  \A k \in 1..Len(tab2.final_values) :
                        tab2.final_values[k] = due
        /\ McDone =>
                /\ Len(tab2.final_values) = 50
                /\ tab2.summary.min = tab2.summary.max
                /\ tab2.summary.median = tab2.summary.min

C8_Witness ==
    /\ McDone
    /\ ZeroVolatility
    /\ Len(tab2.final_values) = 50
    /\ Less(Zero, tab2.monthly_mean)
    /\ tab2.final_values[1] = tab2.final_values[50]
    /\ Less(FromInt(tab2.mc_inv * 60), tab2.final_values[50])

(***************************************************************************)
(* Claims about tab3, tab4 and the whole run, checked under Spec.          *)
(***************************************************************************)
\* tab3 has run, to its end or to an exception
Tab3Ran == pc \in {"tab4", "done", "raised"}

ScriptEnded == pc \in {"done", "raised"}

\* C1: a periodic rate of exactly 0 is handled inside the annuity formula:
\* the value is c * n and no division-by-zero error surfaces, in particular
\* when the return rate of the cost-of-delay section is 0.
C1_ZeroRateHandled ==
    Tab3Ran /\ tab3.rate = Zero =>
        /\ error = "none"
        /\ tab3.corpus_a = FromInt(tab3.delay_inv * tab3.months_a)
        /\ tab3.corpus_b = FromInt(tab3.delay_inv * tab3.months_b)

\* C2: with delay >= duration the calculation fails with InvalidParameter
\* and produces no corpus or loss.
C2_DelayValidated ==
    Tab3Ran /\ tab3.delay_years >= tab3.delay_duration =>
        /\ pc = "raised"
        /\ error = "InvalidParameter"

\* the inputs of C2 are reached, and tab3 runs to its end on them
C2_Reached ==
    /\ pc = "tab4"
    /\ tab3.delay_duration = 10
    /\ tab3.delay_years = 10
    /\ tab3.months_b = 0
    /\ tab3.corpus_b = Zero
    /\ tab3.loss = tab3.corpus_a

\* C6: loss = corpusA - corpusB, corpusA the annuity value over
\* duration * 12 periods and corpusB over (duration - delay) * 12; for a
\* positive contribution, a rate >= 0 and 0 < delay < duration the loss is
\* strictly positive.
C6_LossPositive ==
    (/\ Tab3Ran
     /\ tab3.delay_inv > 0
     /\ Leq(Zero, tab3.delay_ret)
     /\ 0 < tab3.delay_years
     /\ tab3.delay_years < tab3.delay_duration) =>
        /\ error = "none"
        /\ tab3.loss = Sub(tab3.corpus_a, tab3.corpus_b)
        /\ Less(Zero, tab3.loss)

\* what holds of C6 on the code: the same with a rate > 0
DelayLossPositive ==
    (/\ Tab3Ran
     /\ tab3.delay_inv > 0
     /\ Less(Zero, tab3.delay_ret)
     /\ 0 < tab3.delay_years
     /\ tab3.delay_years < tab3.delay_duration) =>
        /\ error = "none"
        /\ tab3.corpus_a =
              AnnuityFv(FromInt(tab3.delay_inv), MonthlyRate(tab3.delay_ret),
                        tab3.delay_duration * 12)
        /\ tab3.corpus_b =
              AnnuityFv(FromInt(tab3.delay_inv), MonthlyRate(tab3.delay_ret),
                        (tab3.delay_duration - tab3.delay_years) * 12)
        /\ tab3.loss = Sub(tab3.corpus_a, tab3.corpus_b)
        /\ Less(Zero, tab3.loss)

\* the outputs of tab1 as a function of tab1's widgets
SipOwnOutput ==
    /\ Len(tab1.data) = tab1.time_period * 12
    /\ tab1.final_invested = tab1.monthly_inv * tab1.time_period * 12
    /\ tab1.final_val =
          Mul(FromInt(tab1.monthly_inv),
              Div(Sub(Pow(Add(One, MonthlyRate(tab1.return_rate)),
                          tab1.time_period * 12), One),
                  MonthlyRate(tab1.return_rate)))

\* the outputs of tab2: 50 paths of mc_years * 12 + 1 points
McOwnOutput ==
    /\ Len(tab2.final_values) = simulations
    /\ \A k \in 1..Len(tab2.fig_mc) : tab2.fig_mc[k].n = tab2.mc_years * 12 + 1
    /\ tab2.summary.min = MinOf(tab2.final_values)
    /\ tab2.summary.max = MaxOf(tab2.final_values)

\* the outcome of tab3 as a function of tab3's widgets
DelayOwnOutput ==
    IF MonthlyRate(tab3.delay_ret) = Zero
    THEN error = "ZeroDivisionError"
    ELSE tab3.loss =
            Sub(AnnuityFv(FromInt(tab3.delay_inv), MonthlyRate(tab3.delay_ret),
                          tab3.delay_duration * 12),
                AnnuityFv(FromInt(tab3.delay_inv), MonthlyRate(tab3.delay_ret),
                          (tab3.delay_duration - tab3.delay_years) * 12))

\* the outputs of tab4 as a function of tab4's widgets
GoalOwnOutput ==
    /\ pc = "done"
    /\ tab4.future_cost =
          FutureCost(tab4.current_cost, tab4.item_inflation, tab4.years_to_buy)
    /\ tab4.future_savings =
          AnnuityFv(FromInt(tab4.monthly_savings_goal),
                    MonthlyRate(tab4.goal_return), tab4.years_to_buy * 12)
    /\ tab4.gap = Sub(tab4.future_savings, tab4.future_cost)

\* C9: the four calculators are not coupled at run time: when the script
\* has ended, each calculator has produced the outputs that its own inputs
\* determine, whatever the inputs of the other three.
C9_NoCoupling ==
    ScriptEnded =>
        /\ SipOwnOutput
        /\ McOwnOutput
        /\ DelayOwnOutput
        /\ GoalOwnOutput

\* what holds of C9 on the code: as long as no section raises, the reads of
\* months and monthly_rate see the value assigned in the same section
NoCouplingUnlessRaised ==
    /\ pc \in {"tab2", "mc_loop", "mc_path", "tab3", "tab4", "done", "raised"}
            => SipOwnOutput
    /\ pc \in {"tab3", "tab4", "done", "raised"} => McOwnOutput
    /\ Tab3Ran => DelayOwnOutput
    /\ pc = "done" => GoalOwnOutput

====
